---- MODULE Spec2Model ----
(***************************************************************************)
(* Model of the ComfyUI-TRELLIS2 bootstrap scripts:                        *)
(*   install.py             main() and the steps it calls                  *)
(*   prestartup_script.py   copy_assets_to_input(), _ensure_cuda_wheels()  *)
(*   nodes/utils/isolation.py   _get_isolated() and the exported value     *)
(*                                                                         *)
(* A Python string is a sequence of one-character strings; a fixed literal *)
(* of the code (a flag, a URL, a path) is a one-symbol sequence.  A value  *)
(* that may be None is a record [set, val].                                *)
(***************************************************************************)
EXTENDS Integers, Sequences, FiniteSets, TLC

VARIABLES
    entry,          \* which entry point this run executes
    pc,             \* position inside the entry point
    platform,       \* platform.system()
    inVenv,         \* sys.prefix # sys.base_prefix
    dllFiles,       \* the <<dll, directory>> pairs present on disk
    envIndex,       \* os.environ.get("TRELLIS2_WHEEL_INDEX_URL")
    envLinks,       \* os.environ.get("TRELLIS2_WHEEL_FIND_LINKS")
    reqExists,      \* <node_root>/requirements.txt exists
    venvFiles,      \* which interpreter files exist under <host>/venv
    probes,         \* number of DLL probes of the file system made so far
    downloads,      \* number of urlretrieve calls made so far
    tempFile,       \* the downloaded installer exists at temp_path
    launch,         \* outcome of running the installer
    rc,             \* result.returncode of the installer
    removeTried,    \* os.remove(temp_path) was called
    vcOk,           \* what ensure_vcredist returned
    reqOk,          \* what ensure_venv_requirements returned
    cudaOk,         \* what ensure_cuda_packages returned
    exitCode,       \* what main() returned
    pipCalls,       \* the subprocess.run argument lists of pip, in order
    assetsKind,     \* <plugin>/assets: absent, a directory or a file
    inputKind,      \* <host>/input: absent, a directory or a file
    srcEntries,     \* entries of <plugin>/assets
    dstEntries,     \* entries of <host>/input
    todo,           \* os.listdir(assets_src) entries not yet visited
    copied,         \* names shutil.copy2 was called for
    raised,         \* an exception left the pre-startup module
    specFound,      \* modules for which find_spec returned a spec
    wheelsRun,      \* _ensure_cuda_wheels was entered
    envFlag,        \* os.environ.get("TRELLIS2_ENABLE_COMFY_ENV")
    comfyEnv,       \* the comfy_env package can be imported
    isolated,       \* the module-level value `isolated`
    applied         \* the last isolated(*args, **kwargs)(obj) evaluation

vars == <<entry, pc, platform, inVenv, dllFiles, envIndex, envLinks, reqExists,
          venvFiles, probes, downloads, tempFile, launch, rc, removeTried, vcOk,
          reqOk, cudaOk, exitCode, pipCalls, assetsKind, inputKind, srcEntries,
          dstEntries, todo, copied, raised, specFound, wheelsRun, envFlag,
          comfyEnv, isolated, applied>>

installVars == <<platform, inVenv, dllFiles, envIndex, envLinks, reqExists,
                 probes, downloads, tempFile, launch, rc, removeTried, vcOk,
                 reqOk, cudaOk, exitCode>>
hookVars == <<assetsKind, inputKind, srcEntries, dstEntries, todo, copied,
              raised, specFound, wheelsRun>>
isoVars == <<envFlag, comfyEnv, isolated, applied>>

----------------------------------------------------------------------------
(* Bounds of the model *)

MaxDllFiles == 2    \* DLL files initially on disk
MaxEnvLen == 3      \* total length of the two wheel-source variables
MaxFlagLen == 3     \* length of TRELLIS2_ENABLE_COMFY_ENV
MaxAssets == 2      \* distinct entry names in the assets and input directories

----------------------------------------------------------------------------
(* Strings *)

SeqsUpTo(A, n) == UNION {[1..k -> A] : k \in 0..n}

None == [set |-> FALSE, val |-> <<>>]
Str(s) == [set |-> TRUE, val |-> s]
Lit(s) == <<s>>

IsSpace(c) == c \in {" ", "\t", "\n"}

\* str.replace(old, new) for one-character old and new
Replace(s, old, new) == [i \in 1..Len(s) |-> IF s[i] = old THEN new ELSE s[i]]

\* str.split(sep): the fields between separators, at least one
RECURSIVE Split(_, _)
Split(s, sep) ==
    IF \A i \in 1..Len(s) : s[i] # sep
    THEN <<s>>
    ELSE LET i == CHOOSE j \in 1..Len(s) :
                     s[j] = sep /\ \A k \in 1..(j - 1) : s[k] # sep
         IN <<SubSeq(s, 1, i - 1)>> \o Split(SubSeq(s, i + 1, Len(s)), sep)

RECURSIVE LStrip(_)
LStrip(s) == IF s # <<>> /\ IsSpace(Head(s)) THEN LStrip(Tail(s)) ELSE s

RECURSIVE RStrip(_)
RStrip(s) ==
    IF s # <<>> /\ IsSpace(s[Len(s)]) THEN RStrip(SubSeq(s, 1, Len(s) - 1)) ELSE s

\* str.strip()
Strip(s) == RStrip(LStrip(s))

\* str.lower() on the letters of the flag values
LowerChar(c) ==
    CASE c = "O" -> "o"
      [] c = "N" -> "n"
      [] c = "T" -> "t"
      [] c = "R" -> "r"
      [] c = "U" -> "u"
      [] c = "E" -> "e"
      [] c = "Y" -> "y"
      [] c = "S" -> "s"
      [] OTHER -> c
Lower(s) == [i \in 1..Len(s) |-> LowerChar(s[i])]

----------------------------------------------------------------------------
(* install.py: VC++ redistributable *)

Platforms == {"Windows", "Linux"}
DLLs == {"vcruntime140.dll", "msvcp140.dll"}
System32 == "SystemRoot/System32"
Dirs == {System32, "base_prefix/Library/bin", "base_prefix/DLLs",
         "prefix/Library/bin", "prefix/DLLs"}

RcOk == 0
RcNewer == 1638
\* return codes the installer process may end with (1 and 3010 stand for "any other")
InstallerExitCodes == {RcOk, RcNewer, 1, 3010}

search_paths(venv) ==
    {System32, "base_prefix/Library/bin", "base_prefix/DLLs"}
      \cup (IF venv THEN {"prefix/Library/bin", "prefix/DLLs"} ELSE {})

\* check_vcredist_installed(): every required DLL lies in some searched directory
check_vcredist_installed(plat, venv, files) ==
    IF plat # "Windows"
    THEN TRUE
    ELSE \A dll \in DLLs : \E dir \in search_paths(venv) : <<dll, dir>> \in files

\* the probe touches the file system only on Windows
ProbeCost(plat) == IF plat # "Windows" THEN 0 ELSE 1

InstallerSucceededMut(code) == code = RcOk
\* install_vcredist: the return codes after which the DLLs are verified
InstallerSucceeded(code) == code = RcOk \/ code = RcNewer

Bool(b) == IF b THEN "True" ELSE "False"

\* ensure_vcredist(), up to the call of install_vcredist()
EnsureVcredist ==
    /\ pc = "ensure_vcredist"
    /\ IF platform # "Windows"
       THEN /\ vcOk' = "True"
            /\ pc' = "requirements"
            /\ UNCHANGED probes
       ELSE /\ probes' = probes + ProbeCost(platform)
            /\ IF check_vcredist_installed(platform, inVenv, dllFiles)
               THEN vcOk' = "True" /\ pc' = "requirements"
               ELSE vcOk' = vcOk /\ pc' = "download"
    /\ UNCHANGED <<entry, platform, inVenv, dllFiles, envIndex, envLinks,
                   reqExists, venvFiles, downloads, tempFile, launch, rc,
                   removeTried, reqOk, cudaOk, exitCode, pipCalls>>
    /\ UNCHANGED <<hookVars, isoVars>>

\* install_vcredist(): urllib.request.urlretrieve(VCREDIST_URL, temp_path)
Download ==
    /\ pc = "download"
    /\ downloads' = downloads + 1
    /\ \/ /\ tempFile' = TRUE                   \* the download succeeded
          /\ pc' = "run_installer"
          /\ vcOk' = vcOk
       \/ /\ tempFile' = tempFile               \* urlretrieve raised
          /\ vcOk' = "False"
          /\ pc' = "requirements"
    /\ UNCHANGED <<entry, platform, inVenv, dllFiles, envIndex, envLinks,
                   reqExists, venvFiles, probes, launch, rc, removeTried,
                   reqOk, cudaOk, exitCode, pipCalls>>
    /\ UNCHANGED <<hookVars, isoVars>>

\* what a completed installer run may leave on disk
InstallerEffect(code, files) ==
    IF code = RcOk
    THEN {files, files \cup {<<dll, System32>> : dll \in DLLs}}
    ELSE {files}

LaunchFailureMut == pc' = "cleanup"
\* install_vcredist(): the except branch of subprocess.run returns at once
LaunchFailure == pc' = "requirements"

\* install_vcredist(): subprocess.run([temp_path, '/install', ...])
RunInstaller ==
    /\ pc = "run_installer"
    /\ \/ /\ launch' = "raised"                 \* subprocess.run raised
          /\ vcOk' = "False"
          /\ LaunchFailure
          /\ UNCHANGED <<rc, dllFiles>>
       \/ \E code \in InstallerExitCodes :
             /\ launch' = "exited"
             /\ rc' = code
             /\ dllFiles' \in InstallerEffect(code, dllFiles)
             /\ vcOk' = vcOk
             /\ pc' = "cleanup"
    /\ UNCHANGED <<entry, platform, inVenv, envIndex, envLinks, reqExists,
                   venvFiles, probes, downloads, tempFile, removeTried, reqOk,
                   cudaOk, exitCode, pipCalls>>
    /\ UNCHANGED <<hookVars, isoVars>>

\* install_vcredist(): try: os.remove(temp_path) except: pass
Cleanup ==
    /\ pc = "cleanup"
    /\ removeTried' = TRUE
    /\ \/ tempFile' = FALSE                     \* the file was removed
       \/ tempFile' = tempFile                  \* os.remove raised, swallowed
    /\ pc' = "verify"
    /\ UNCHANGED <<entry, platform, inVenv, dllFiles, envIndex, envLinks,
                   reqExists, venvFiles, probes, downloads, launch, rc, vcOk,
                   reqOk, cudaOk, exitCode, pipCalls>>
    /\ UNCHANGED <<hookVars, isoVars>>

\* install_vcredist(): the return code, then the second probe
Verify ==
    /\ pc = "verify"
    /\ IF InstallerSucceeded(rc)
       THEN /\ probes' = probes + ProbeCost(platform)
            /\ vcOk' = Bool(check_vcredist_installed(platform, inVenv, dllFiles))
       ELSE /\ vcOk' = "False"
            /\ UNCHANGED probes
    /\ pc' = "requirements"
    /\ UNCHANGED <<entry, platform, inVenv, dllFiles, envIndex, envLinks,
                   reqExists, venvFiles, downloads, tempFile, launch, rc,
                   removeTried, reqOk, cudaOk, exitCode, pipCalls>>
    /\ UNCHANGED <<hookVars, isoVars>>

----------------------------------------------------------------------------
(* install.py: interpreter resolution and the two pip steps *)

SysExecutable == Lit("sys.executable")
VenvPaths == {"venv/bin/python", "venv/Scripts/python.exe"}

venv_python_path(plat) ==
    IF plat = "Windows" THEN "venv/Scripts/python.exe" ELSE "venv/bin/python"

\* _get_comfyui_venv_python(node_root): the path if it exists, otherwise None
get_comfyui_venv_python(plat, files) ==
    IF venv_python_path(plat) \in files
    THEN Str(Lit(venv_python_path(plat)))
    ELSE None

python_execMut(plat, files) == SysExecutable
\* python_exec = str(venv_python) if venv_python else sys.executable
python_exec(plat, files) ==
    LET venv_python == get_comfyui_venv_python(plat, files)
    IN IF venv_python.set THEN venv_python.val ELSE SysExecutable

\* how a subprocess.run of pip may end: it raises, or pip exits with a code
PipOutcomes ==
    {[raised |-> TRUE, code |-> 0]}
      \cup {[raised |-> FALSE, code |-> c] : c \in {0, 1, 2}}

\* except Exception: return False; returncode != 0: return False; else True
PipStepResult(out) == ~out.raised /\ out.code = 0

RequirementsCmd(exec) ==
    <<exec, Lit("-m"), Lit("pip"), Lit("install"), Lit("-r"),
      Lit("requirements.txt")>>

WheelUrls ==
    <<Lit("cumesh-0.0.1-cp312-cp312-linux_x86_64.whl"),
      Lit("flex_gemm-1.0.0-cp312-cp312-linux_x86_64.whl"),
      Lit("nvdiffrast-0.4.0-cp312-cp312-linux_x86_64.whl"),
      Lit("nvdiffrec_render-0.0.0-cp312-cp312-linux_x86_64.whl"),
      Lit("o_voxel-0.0.1-cp312-cp312-linux_x86_64.whl")>>

RECURSIVE KeepNonEmpty(_)
KeepNonEmpty(items) ==
    IF items = <<>>
    THEN <<>>
    ELSE LET item == Strip(Head(items))
         IN (IF item # <<>> THEN <<item>> ELSE <<>>) \o KeepNonEmpty(Tail(items))

split_env_listMut(value) ==
    IF ~value.set \/ value.val = <<>>
    THEN <<>>
    ELSE KeepNonEmpty(Split(value.val, ","))
\* _split_env_list(value)
split_env_list(value) ==
    IF ~value.set \/ value.val = <<>>
    THEN <<>>
    ELSE KeepNonEmpty(Split(Replace(value.val, ";", ","), ","))

RECURSIVE Pairs(_, _)
\* for x in xs: cmd.extend([flag, x])
Pairs(flag, xs) ==
    IF xs = <<>> THEN <<>> ELSE <<Lit(flag), Head(xs)>> \o Pairs(flag, Tail(xs))

\* ensure_cuda_packages: the argument list handed to subprocess.run
CudaCmd(exec, index, links) ==
    <<exec, Lit("-m"), Lit("pip"), Lit("install")>> \o WheelUrls
      \o Pairs("--extra-index-url", split_env_list(index))
      \o Pairs("--find-links", split_env_list(links))

RequirementsFailedMut == pc' = "cuda" /\ exitCode' = exitCode
\* main(): if not ensure_venv_requirements(node_root): return 1
RequirementsFailed == pc' = "done" /\ exitCode' = 1

\* ensure_venv_requirements(node_root) and main()'s test of its result
EnsureVenvRequirements ==
    /\ pc = "requirements"
    /\ \/ /\ ~reqExists
          /\ reqOk' = "False"
          /\ UNCHANGED pipCalls
       \/ /\ reqExists
          /\ pipCalls' =
               Append(pipCalls, RequirementsCmd(python_exec(platform, venvFiles)))
          /\ \E out \in PipOutcomes : reqOk' = Bool(PipStepResult(out))
    /\ IF reqOk' = "False"
       THEN RequirementsFailed
       ELSE pc' = "cuda" /\ exitCode' = exitCode
    /\ UNCHANGED <<entry, platform, inVenv, dllFiles, envIndex, envLinks,
                   reqExists, venvFiles, probes, downloads, tempFile, launch,
                   rc, removeTried, vcOk, cudaOk>>
    /\ UNCHANGED <<hookVars, isoVars>>

MainResultMut(ok) == 0
\* main(): if not ensure_cuda_packages(node_root): return 1; return 0
MainResult(ok) == IF ok THEN 0 ELSE 1

\* ensure_cuda_packages(node_root) and, inside main(), the test of its result
EnsureCudaPackages ==
    /\ pc = "cuda"
    /\ pipCalls' =
         Append(pipCalls,
                CudaCmd(python_exec(platform, venvFiles), envIndex, envLinks))
    /\ \E out \in PipOutcomes : cudaOk' = Bool(PipStepResult(out))
    /\ exitCode' = IF entry = "main" THEN MainResult(cudaOk' = "True") ELSE exitCode
    /\ pc' = "done"
    /\ UNCHANGED <<entry, platform, inVenv, dllFiles, envIndex, envLinks,
                   reqExists, venvFiles, probes, downloads, tempFile, launch,
                   rc, removeTried, vcOk, reqOk>>
    /\ UNCHANGED <<hookVars, isoVars>>

----------------------------------------------------------------------------
(* prestartup_script.py *)

AssetNames == 1..MaxAssets
NoEntries == [n \in AssetNames |-> "absent"]

ShouldCopyMut(src, dst) == src = "file"
\* if os.path.isfile(src) and not os.path.exists(dst)
ShouldCopy(src, dst) == src = "file" /\ dst = "absent"

\* copy_assets_to_input(): the existence test, os.makedirs and os.listdir
CopyAssetsStart ==
    /\ pc = "copy_assets"
    /\ IF assetsKind = "absent"
       THEN /\ pc' = "wheels"
            /\ UNCHANGED <<inputKind, todo, raised>>
       ELSE \/ /\ inputKind = "file"            \* makedirs: FileExistsError
               /\ raised' = TRUE
               /\ pc' = "done"
               /\ UNCHANGED <<inputKind, todo>>
            \/ /\ inputKind = "absent"          \* makedirs: any other OSError
               /\ raised' = TRUE
               /\ pc' = "done"
               /\ UNCHANGED <<inputKind, todo>>
            \/ /\ inputKind # "file"
               /\ inputKind' = "dir"
               /\ IF assetsKind = "file"        \* listdir: NotADirectoryError
                  THEN /\ raised' = TRUE
                       /\ pc' = "done"
                       /\ UNCHANGED todo
                  ELSE /\ todo' = {n \in AssetNames : srcEntries[n] # "absent"}
                       /\ pc' = IF todo' = {} THEN "wheels" ELSE "copy_loop"
                       /\ UNCHANGED raised
    /\ UNCHANGED <<assetsKind, srcEntries, dstEntries, copied, specFound,
                   wheelsRun>>
    /\ UNCHANGED <<entry, venvFiles, pipCalls, installVars, isoVars>>

\* copy_assets_to_input(): one iteration of the loop over os.listdir
CopyAsset(n) ==
    /\ pc = "copy_loop"
    /\ n \in todo
    /\ todo' = todo \ {n}
    /\ IF ShouldCopy(srcEntries[n], dstEntries[n])
       THEN /\ copied' = copied \cup {n}
            /\ \/ /\ dstEntries' = [dstEntries EXCEPT ![n] = "asset"]
                  /\ pc' = IF todo' = {} THEN "wheels" ELSE "copy_loop"
                  /\ UNCHANGED raised
               \/ /\ \E left \in {dstEntries[n], "partial"} :  \* copy2 raised
                        dstEntries' = [dstEntries EXCEPT ![n] = left]
                  /\ raised' = TRUE
                  /\ pc' = "done"
       ELSE /\ pc' = IF todo' = {} THEN "wheels" ELSE "copy_loop"
            /\ UNCHANGED <<dstEntries, copied, raised>>
    /\ UNCHANGED <<assetsKind, inputKind, srcEntries, specFound, wheelsRun>>
    /\ UNCHANGED <<entry, venvFiles, pipCalls, installVars, isoVars>>

Modules == <<"cumesh", "flex_gemm", "nvdiffrast", "nvdiffrec_render", "o_voxel">>
ModuleSet == {Modules[i] : i \in 1..Len(Modules)}

\* missing = [name for name in modules if find_spec(name) is None]
Missing(found) == SelectSeq(Modules, LAMBDA name : name \notin found)

HookCmdMut(missing) ==
    <<SysExecutable, Lit("-m"), Lit("pip"), Lit("install")>>
      \o [i \in 1..Len(missing) |->
            WheelUrls[CHOOSE k \in 1..Len(Modules) : Modules[k] = missing[i]]]
\* [sys.executable, "-m", "pip", "install", *wheel_urls]
HookCmd(missing) ==
    <<SysExecutable, Lit("-m"), Lit("pip"), Lit("install")>> \o WheelUrls

\* _ensure_cuda_wheels()
EnsureCudaWheels ==
    /\ pc = "wheels"
    /\ wheelsRun' = TRUE
    /\ \E found \in SUBSET ModuleSet :
          /\ specFound' = found
          /\ IF Missing(found) = <<>>
             THEN UNCHANGED pipCalls
             ELSE pipCalls' = Append(pipCalls, HookCmd(Missing(found)))
    /\ pc' = "done"
    /\ UNCHANGED <<assetsKind, inputKind, srcEntries, dstEntries, todo, copied,
                   raised>>
    /\ UNCHANGED <<entry, venvFiles, installVars, isoVars>>

----------------------------------------------------------------------------
(* nodes/utils/isolation.py *)

TruthyWords == {<<"1">>, <<"t", "r", "u", "e">>, <<"y", "e", "s">>, <<"o", "n">>}

is_truthyMut(value) == value.set /\ Strip(value.val) \in TruthyWords
\* _is_truthy(value)
is_truthy(value) ==
    IF ~value.set THEN FALSE ELSE Lower(Strip(value.val)) \in TruthyWords

\* _get_isolated()
get_isolated(flag, importable) ==
    IF is_truthy(flag)
    THEN IF importable THEN "comfy_isolated" ELSE "_noop_isolated"
    ELSE "_noop_isolated"

\* isolated = _get_isolated()
GetIsolated ==
    /\ pc = "import_isolation"
    /\ isolated' = get_isolated(envFlag, comfyEnv)
    /\ pc' = "loaded"
    /\ UNCHANGED <<envFlag, comfyEnv, applied>>
    /\ UNCHANGED <<entry, venvFiles, pipCalls, installVars, hookVars>>

ArgSamples == {"()", "(env='trellis2', timeout=60)"}
Objects == {"NodeClassA", "NodeClassB"}
NotApplied == [args |-> "none", obj |-> "none", result |-> "none"]

\* _noop_isolated(*_args, **_kwargs)(obj); comfy_env's decorator is external
Decorated(which, args, obj) ==
    IF which = "_noop_isolated" THEN {obj} ELSE {obj, "comfy_env_proxy"}

\* a node module evaluating isolated(*args, **kwargs)(obj)
Apply ==
    /\ pc = "loaded"
    /\ \E args \in ArgSamples, obj \in Objects :
          \E res \in Decorated(isolated, args, obj) :
             applied' = [args |-> args, obj |-> obj, result |-> res]
    /\ UNCHANGED <<pc, envFlag, comfyEnv, isolated>>
    /\ UNCHANGED <<entry, venvFiles, pipCalls, installVars, hookVars>>

----------------------------------------------------------------------------
(* Initial states and specifications *)

InstallIdle ==
    /\ platform = "Linux" /\ inVenv = FALSE /\ dllFiles = {}
    /\ envIndex = None /\ envLinks = None /\ reqExists = FALSE
    /\ probes = 0 /\ downloads = 0 /\ tempFile = FALSE /\ launch = "none"
    /\ rc = 0 /\ removeTried = FALSE /\ vcOk = "unset" /\ reqOk = "unset"
    /\ cudaOk = "unset" /\ exitCode = -1

HookIdle ==
    /\ assetsKind = "absent" /\ inputKind = "absent"
    /\ srcEntries = NoEntries /\ dstEntries = NoEntries
    /\ todo = {} /\ copied = {} /\ raised = FALSE
    /\ specFound = {} /\ wheelsRun = FALSE

IsoIdle ==
    /\ envFlag = None /\ comfyEnv = FALSE
    /\ isolated = "unset" /\ applied = NotApplied

DllLayouts(plat) ==
    IF plat = "Windows"
    THEN {S \in SUBSET (DLLs \X Dirs) : Cardinality(S) <= MaxDllFiles}
    ELSE {{}}

EnvAlphabet == {"a", "b", ",", ";", " "}
EnvValues(n) == {None} \cup {Str(s) : s \in SeqsUpTo(EnvAlphabet, n)}
EnvPairs(n) ==
    {p \in EnvValues(n) \X EnvValues(n) : Len(p[1].val) + Len(p[2].val) <= n}

\* the wheel-source variables of the runs of main()
MainIndexValues == {None, Str(<<"a", ";", "b">>)}
MainLinksValues == {None, Str(<<" ", "a">>)}

\* install.py run as a script: main()
InitInstall ==
    /\ entry = "main" /\ pc = "ensure_vcredist"
    /\ platform \in Platforms
    /\ inVenv \in BOOLEAN
    /\ dllFiles \in DllLayouts(platform)
    /\ envIndex \in MainIndexValues
    /\ envLinks \in MainLinksValues
    /\ reqExists \in BOOLEAN
    /\ venvFiles \in SUBSET VenvPaths
    /\ probes = 0 /\ downloads = 0 /\ tempFile = FALSE /\ launch = "none"
    /\ rc = 0 /\ removeTried = FALSE /\ vcOk = "unset" /\ reqOk = "unset"
    /\ cudaOk = "unset" /\ exitCode = -1
    /\ pipCalls = <<>>
    /\ HookIdle /\ IsoIdle

\* ensure_cuda_packages(node_root) called on its own
InitWheel ==
    /\ entry = "ensure_cuda_packages" /\ pc = "cuda"
    /\ platform \in Platforms
    /\ venvFiles \in SUBSET VenvPaths
    /\ \E p \in EnvPairs(MaxEnvLen) : envIndex = p[1] /\ envLinks = p[2]
    /\ inVenv = FALSE /\ dllFiles = {} /\ reqExists = FALSE
    /\ probes = 0 /\ downloads = 0 /\ tempFile = FALSE /\ launch = "none"
    /\ rc = 0 /\ removeTried = FALSE /\ vcOk = "unset" /\ reqOk = "unset"
    /\ cudaOk = "unset" /\ exitCode = -1
    /\ pipCalls = <<>>
    /\ HookIdle /\ IsoIdle

EntryKinds(dirKind) ==
    IF dirKind = "dir" THEN [AssetNames -> {"absent", "file", "dir"}] ELSE {NoEntries}

\* the host loading prestartup_script.py
InitHook ==
    /\ entry = "prestartup" /\ pc = "copy_assets"
    /\ assetsKind \in {"absent", "dir", "file"}
    /\ inputKind \in {"absent", "dir", "file"}
    /\ srcEntries \in EntryKinds(assetsKind)
    /\ dstEntries \in EntryKinds(inputKind)
    /\ todo = {} /\ copied = {} /\ raised = FALSE
    /\ specFound = {} /\ wheelsRun = FALSE
    /\ venvFiles \in SUBSET {venv_python_path("Linux")}
    /\ pipCalls = <<>>
    /\ InstallIdle /\ IsoIdle

FlagAlphabet == {"1", "0", "o", "n", "N", " "}

\* a node module importing nodes/utils/isolation.py
InitIso ==
    /\ entry = "isolation" /\ pc = "import_isolation"
    /\ envFlag \in {None} \cup {Str(s) : s \in SeqsUpTo(FlagAlphabet, MaxFlagLen)}
    /\ comfyEnv \in BOOLEAN
    /\ isolated = "unset" /\ applied = NotApplied
    /\ venvFiles = {}
    /\ pipCalls = <<>>
    /\ InstallIdle /\ HookIdle

NextInstall ==
    \/ EnsureVcredist
    \/ Download
    \/ RunInstaller
    \/ Cleanup
    \/ Verify
    \/ EnsureVenvRequirements
    \/ EnsureCudaPackages

NextWheel == EnsureCudaPackages

NextHook ==
    \/ CopyAssetsStart
    \/ \E n \in AssetNames : CopyAsset(n)
    \/ EnsureCudaWheels

NextIso ==
    \/ GetIsolated
    \/ Apply

Init == InitInstall \/ InitWheel \/ InitHook \/ InitIso
Next == NextInstall \/ NextHook \/ NextIso

SpecInstall == InitInstall /\ [][NextInstall]_vars
SpecWheel == InitWheel /\ [][NextWheel]_vars
SpecHook == InitHook /\ [][NextHook]_vars
SpecIso == InitIso /\ [][NextIso]_vars
Spec == Init /\ [][Next]_vars

----------------------------------------------------------------------------
(* Properties *)

IsWheelCall(cmd) == Len(cmd) >= 5 /\ cmd[5] = WheelUrls[1]

\* C1: when main() has returned, the code is 0 exactly when the requirements
\* step and the wheel step both returned True, it is 1 when either returned
\* False, and it does not depend on what ensure_vcredist returned.
C1_ExitCode ==
    (entry = "main" /\ pc = "done") =>
        /\ exitCode \in {0, 1}
        /\ exitCode = 0 <=> (reqOk = "True" /\ cudaOk = "True")
        /\ exitCode = 1 <=> (reqOk = "False" \/ cudaOk = "False")
        /\ vcOk \in {"True", "False"}

\* main() returned 0 although ensure_vcredist had returned False
C1_Witness ==
    entry = "main" /\ pc = "done" /\ vcOk = "False" /\ exitCode = 0

\* C2 as stated: after a failed requirements step the wheel step is still
\* attempted, and main() returns 1.
C2_WheelStepStillAttempted ==
    (entry = "main" /\ pc = "done" /\ reqOk = "False") =>
        (cudaOk # "unset" /\ exitCode = 1)

\* C2 amended: after a failed requirements step main() returns 1 at once; the
\* wheel step is not attempted and no pip invocation names a wheel.
C2_ShortCircuit ==
    (entry = "main" /\ reqOk = "False") =>
        /\ pc = "done"
        /\ exitCode = 1
        /\ cudaOk = "unset"
        /\ \A i \in 1..Len(pipCalls) : ~IsWheelCall(pipCalls[i])

\* pip ran for the requirements file and failed; main() has returned
C2_Witness ==
    /\ entry = "main" /\ pc = "done" /\ reqOk = "False"
    /\ reqExists /\ Len(pipCalls) = 1

UpperChar(c) ==
    CASE c = "o" -> "O"
      [] c = "n" -> "N"
      [] c = "t" -> "T"
      [] c = "r" -> "R"
      [] c = "u" -> "U"
      [] c = "e" -> "E"
      [] c = "y" -> "Y"
      [] c = "s" -> "S"
      [] OTHER -> c

\* value is one of 1, true, yes, on in any letter case, with blanks around it
TruthyText(value) ==
    /\ value.set
    /\ \E i, j \in 1..Len(value.val) :
          /\ i <= j
          /\ \A k \in 1..Len(value.val) :
                (k < i \/ k > j) => value.val[k] = " "
          /\ \E w \in TruthyWords :
                /\ Len(w) = j - i + 1
                /\ \A k \in 1..Len(w) :
                      value.val[i + k - 1] \in {w[k], UpperChar(w[k])}

\* C3 as stated: `isolated` is the identity decorator whatever the flag and
\* whether or not comfy_env can be imported; nothing external is selected.
C3_AlwaysIdentity ==
    /\ isolated \in {"unset", "_noop_isolated"}
    /\ applied # NotApplied => applied.result = applied.obj

\* C3 amended: comfy_env's decorator is selected exactly when the flag is
\* truthy and comfy_env can be imported; in every other case `isolated` is
\* the identity decorator, whatever arguments it is called with.
C3_IdentityUnlessEnabled ==
    (entry = "isolation" /\ pc = "loaded") =>
        /\ isolated = "comfy_isolated" <=> (TruthyText(envFlag) /\ comfyEnv)
        /\ isolated # "comfy_isolated" =>
              /\ isolated = "_noop_isolated"
              /\ applied # NotApplied => applied.result = applied.obj

\* a truthy flag in mixed case, comfy_env missing, the decorator applied
C3_Witness ==
    /\ envFlag = Str(<<"o", "N", " ">>) /\ ~comfyEnv
    /\ isolated = "_noop_isolated"
    /\ applied.obj = "NodeClassA" /\ applied.result = "NodeClassA"

\* C4: copy2 is called for a name only when its source entry is a regular
\* file and the destination has no entry of that name; an existing
\* destination entry never changes; the destination changes only by such a
\* copy; with the assets directory absent nothing is created or copied.
C4_NeverOverwrites ==
    /\ [][\A n \in AssetNames :
            n \in copied' \ copied =>
                srcEntries[n] = "file" /\ dstEntries[n] = "absent"]_vars
    /\ [][\A n \in AssetNames :
            dstEntries[n] # "absent" => dstEntries'[n] = dstEntries[n]]_vars
    /\ [][dstEntries' # dstEntries => copied' # copied]_vars
    /\ [][assetsKind = "absent" =>
            UNCHANGED <<inputKind, dstEntries, copied>>]_vars

\* the loop has passed a source file whose name exists at the destination,
\* and has copied another one
C4_Witness ==
    /\ pc = "wheels" /\ assetsKind = "dir"
    /\ \E n, m \in AssetNames :
          /\ srcEntries[n] = "file" /\ dstEntries[n] = "file" /\ n \notin copied
          /\ srcEntries[m] = "file" /\ dstEntries[m] = "asset" /\ m \in copied

\* C5: no exception leaves the pre-startup module, and a failure of the asset
\* copy does not keep the wheel check from running.
C5_NothingEscapes ==
    /\ ~raised
    /\ (entry = "prestartup" /\ pc = "done") => wheelsRun

\* C6: with all five modules importable no subprocess is launched; otherwise
\* exactly one pip invocation is made, with the running interpreter and all
\* five wheel URLs in their fixed order.
C6_AllWheelsOrNone ==
    (entry = "prestartup" /\ wheelsRun) =>
        IF \A i \in 1..5 : Modules[i] \in specFound
        THEN pipCalls = <<>>
        ELSE pipCalls =
               << <<Lit("sys.executable"), Lit("-m"), Lit("pip"), Lit("install"),
                    WheelUrls[1], WheelUrls[2], WheelUrls[3], WheelUrls[4],
                    WheelUrls[5]>> >>

\* only o_voxel is missing, and pip has been invoked
C6_Witness ==
    /\ entry = "prestartup" /\ wheelsRun
    /\ specFound = {"cumesh", "flex_gemm", "nvdiffrast", "nvdiffrec_render"}
    /\ Len(pipCalls) = 1

\* the interpreter the documented resolution yields
ResolvedInterpreter ==
    IF platform = "Windows"
    THEN IF "venv/Scripts/python.exe" \in venvFiles
         THEN Lit("venv/Scripts/python.exe") ELSE Lit("sys.executable")
    ELSE IF "venv/bin/python" \in venvFiles
         THEN Lit("venv/bin/python") ELSE Lit("sys.executable")

\* C7 as stated: every pip invocation, of the installer and of the
\* pre-startup hook alike, uses the venv interpreter when that file exists
\* and the running interpreter otherwise.
C7_ResolvedEverywhere ==
    \A i \in 1..Len(pipCalls) : pipCalls[i][1] = ResolvedInterpreter

\* C7 amended: the installer's requirements step and wheel step use the venv
\* interpreter when that file exists and the running interpreter otherwise;
\* the pre-startup hook always uses the running interpreter.
C7_ResolvedInInstaller ==
    /\ entry \in {"main", "ensure_cuda_packages"} =>
          \A i \in 1..Len(pipCalls) : pipCalls[i][1] = ResolvedInterpreter
    /\ entry = "prestartup" =>
          \A i \in 1..Len(pipCalls) : pipCalls[i][1] = Lit("sys.executable")

\* on Windows with the venv interpreter present, both steps of main() ran pip
C7_Witness ==
    /\ entry = "main" /\ platform = "Windows" /\ Len(pipCalls) = 2
    /\ venvFiles = {"venv/Scripts/python.exe"}
    /\ pipCalls[2][1] = Lit("venv/Scripts/python.exe")

RECURSIVE Scan(_, _, _)
\* the fields of s between commas and semicolons, left to right
Scan(s, cur, acc) ==
    IF s = <<>>
    THEN Append(acc, cur)
    ELSE IF Head(s) \in {",", ";"}
         THEN Scan(Tail(s), <<>>, Append(acc, cur))
         ELSE Scan(Tail(s), Append(cur, Head(s)), acc)

\* f without its leading and trailing blanks
Trimmed(f) ==
    LET inked == {k \in 1..Len(f) : f[k] # " "}
    IN IF inked = {}
       THEN <<>>
       ELSE SubSeq(f, CHOOSE k \in inked : \A m \in inked : k <= m,
                      CHOOSE k \in inked : \A m \in inked : k >= m)

\* the entries of a wheel-source variable
Entries(value) ==
    IF ~value.set
    THEN <<>>
    ELSE LET fields == Scan(value.val, <<>>, <<>>)
         IN SelectSeq([k \in 1..Len(fields) |-> Trimmed(fields[k])],
                      LAMBDA f : f # <<>>)

Flagged(flag, xs) ==
    [k \in 1..(2 * Len(xs)) |-> IF k % 2 = 1 THEN Lit(flag) ELSE xs[k \div 2]]

\* C8: ensure_cuda_packages makes exactly one pip invocation: the resolved
\* interpreter, -m pip install, the five wheel URLs in order, an
\* --extra-index-url pair per entry of TRELLIS2_WHEEL_INDEX_URL in order, then
\* a --find-links pair per entry of TRELLIS2_WHEEL_FIND_LINKS in order.
C8_WheelCommand ==
    (entry = "ensure_cuda_packages" /\ cudaOk # "unset") =>
        pipCalls =
          << <<ResolvedInterpreter, Lit("-m"), Lit("pip"), Lit("install"),
               WheelUrls[1], WheelUrls[2], WheelUrls[3], WheelUrls[4],
               WheelUrls[5]>>
             \o Flagged("--extra-index-url", Entries(envIndex))
             \o Flagged("--find-links", Entries(envLinks)) >>

\* one index URL and one find-links path, each with a separator beside it
C8_Witness ==
    /\ entry = "ensure_cuda_packages" /\ cudaOk # "unset"
    /\ envIndex = Str(<<"a", ";">>) /\ envLinks = Str(<<"b">>)
    /\ Len(pipCalls) = 1 /\ Len(pipCalls[1]) = 13

\* C9 as stated: once the download has succeeded, the temporary installer is
\* gone when install_vcredist returns, whatever running it led to.
C9_TempFileAlwaysDeleted ==
    (vcOk # "unset" /\ launch # "none") => ~tempFile

\* C9 amended: when the installer process ran and exited, with whatever code,
\* os.remove of the temporary file has been called before install_vcredist
\* returns (a failure of os.remove is ignored); when launching the installer
\* raised, install_vcredist returns without calling os.remove and the file
\* stays.
C9_RemoveAfterExit ==
    (vcOk # "unset") =>
        /\ launch = "exited" => removeTried
        /\ launch = "raised" => (~removeTried /\ tempFile)
        /\ launch = "none" => ~removeTried

\* the installer exited with another code and the file has been removed
C9_Witness ==
    vcOk = "False" /\ launch = "exited" /\ rc = 1 /\ removeTried /\ ~tempFile

BothDllsFound ==
    \A dll \in DLLs :
        \/ <<dll, "SystemRoot/System32">> \in dllFiles
        \/ <<dll, "base_prefix/Library/bin">> \in dllFiles
        \/ <<dll, "base_prefix/DLLs">> \in dllFiles
        \/ inVenv /\ <<dll, "prefix/Library/bin">> \in dllFiles
        \/ inVenv /\ <<dll, "prefix/DLLs">> \in dllFiles

\* C10: the download is attempted only on Windows, after one probe that did
\* not find both DLLs; only the installer codes 0 and 1638 lead to a second
\* probe, and then ensure_vcredist returns True exactly when that probe finds
\* both DLLs; any other code, or an exception in the download or the launch,
\* yields False with no second probe.
C10_CheckThenRemediate ==
    /\ [][downloads' # downloads =>
            (platform = "Windows" /\ probes = 1 /\ downloads = 0
               /\ ~BothDllsFound)]_vars
    /\ [](platform # "Windows" => (probes = 0 /\ downloads = 0))
    /\ []((vcOk # "unset" /\ downloads > 0) =>
            IF launch = "exited" /\ rc \in {0, 1638}
            THEN probes = 2 /\ (vcOk = "True" <=> BothDllsFound)
            ELSE probes = 1 /\ vcOk = "False")
    /\ []((vcOk # "unset" /\ downloads = 0) => (vcOk = "True" /\ probes <= 1))

\* the first probe failed, the installer exited with 0 and put the DLLs in
\* place, and the second probe found them
C10_Witness ==
    /\ vcOk = "True" /\ downloads = 1 /\ launch = "exited" /\ rc = 0
    /\ probes = 2

====
